---- MODULE Spec2Model ----
(***************************************************************************)
(* A model of fstore-core's ObjectStore (crates/fstore-core/src/store.rs): *)
(* the object lifecycle (get_part, commit_part, the bucket operations,     *)
(* prune) and the object-stream passes (check, archive, for_each_object).  *)
(*                                                                         *)
(* ObjectStore is the code of store.rs.  The Database, the Filesystem and  *)
(* the ProgressGuard it calls live in other files of the crate; they are   *)
(* modelled from their documented contracts and carry the prefix D_, F_    *)
(* and P_.                                                                 *)
(***************************************************************************)
EXTENDS Integers, Sequences, FiniteSets, TLC

\* ------------------------------------------------------------------ bounds
MaxId == 3          \* object ids of the model
MaxParts == 2       \* parts ever staged by get_part in the lifecycle specification
MaxBucket == 2      \* bucket ids ever generated
NumCalls == 2       \* concurrent callers of check() and archive()
NumCpus == 2        \* num_cpus::get(): the permits of for_each_object's semaphore

Ids == 1..MaxId
Buckets == 1..MaxBucket
Calls == 1..NumCalls

VARIABLES
    \* ---- Database (catalog)
    buckets,        \* bucket rows
    nextBucket,     \* next unused bucket id
    objects,        \* object rows (committed view)
    created,        \* created[id]: creation timestamp of the object row
    member,         \* bucket membership rows <<bucket, object>>
    errors,         \* errors[id]: the ObjectError message list of the catalog
    clock,          \* the catalog's clock: the last creation timestamp given
    \* ---- Filesystem
    blobs,          \* blobs[id]: "none" | "good" | "bad" (hash mismatch)
    parts,          \* staged part files
    nextId,         \* next unused part/object id
    \* ---- commit_part calls in flight
    pending,        \* <<bucket, id>>: F.commit done, D.add_object not yet
    commitRes,      \* commitRes[id]: what commit_part returned for the part
    \* ---- the prune call
    prunePc,        \* "idle" | "tx" | "removed"
    pruneObjects,   \* prune's local `objects`: rows deleted in its transaction
    pruneMissing,   \* ids of pruneObjects whose blob was already absent
    pruneGone,      \* blobs a failed filesystem.remove_objects had already deleted
    pruneRes,       \* "none" | "Ok" | "Err": what the last prune returned
    \* ---- the archive
    archivePath,    \* ObjectStore.archive is Some(path)
    archiveDir,     \* the archive directory exists
    dumpFile,       \* <archive>/fstore.dump exists
    archived,       \* ids with a blob copy under the archive root
    \* ---- check() and archive() calls
    cpc,            \* cpc[c]: "idle" | "count" | "mkdir" | "dump" | "extraneous" | "returned"
    kind,           \* kind[c]: "none" | "check" | "archive"
    started,        \* started[c]: the call's Local::now()
    total,          \* total[c]: get_object_count(started)
    res,            \* res[c]: "none" | "Ok" | "Busy" | "Internal"
    handle,         \* handle[c]: the caller still holds the returned Progress
    \* ---- the background task of call c: for_each_object
    tpc,            \* tpc[c]: "none" | "open" | "stream" | "wait" | "done"
    rows,           \* rows[c]: what the stream_objects cursor yields
    pos,            \* pos[c]: rows pulled so far
    error,          \* error[c]: the local `error` is Some(Internal)
    taskRes,        \* taskRes[c]: "none" | "Ok" | "Internal"
    finalFlush,     \* finalFlush[c]: "none" | "empty" | "ok" | "failed"
    flushFailed,    \* flushFailed[c]: some update_object_errors of the pass failed
    completed,      \* completed[c]: the guard's counter
    errmap,         \* errmap[c][id]: the guard's error map
    wpc,            \* wpc[c][id]: the worker of row id: "none" | "run" | "flush" | "done"
    outcome         \* outcome[c][id]: what action.run returned: "none" | "ok" | the message

storeVars == <<buckets, nextBucket, objects, created, member, errors, clock,
               blobs, parts, nextId, pending, commitRes>>
pruneVars == <<prunePc, pruneObjects, pruneMissing, pruneGone, pruneRes>>
archVars == <<archivePath, archiveDir, dumpFile, archived>>
callVars == <<cpc, kind, started, total, res, handle>>
taskVars == <<tpc, rows, pos, error, taskRes, finalFlush, flushFailed, completed,
              errmap, wpc, outcome>>
passVars == <<archVars, callVars, taskVars>>
vars == <<storeVars, pruneVars, passVars>>

\* ------------------------------------------------- Database (from its contract)

\* object rows with zero bucket memberships
D_orphans == {o \in objects : \A b \in Buckets : <<b, o>> \notin member}

\* add_object: one transaction inserting the object row and the membership;
\* it fails as a whole when the bucket does not exist.
D_add_object_ok(b, id) ==
    /\ b \in buckets
    /\ objects' = objects \cup {id}
    /\ created' = [created EXCEPT ![id] = clock + 1]
    /\ clock' = clock + 1
    /\ member' = member \cup {<<b, id>>}

\* remove_bucket cascades to the membership rows, not to the object rows
D_remove_bucket(b) ==
    /\ buckets' = buckets \ {b}
    /\ member' = {m \in member : m[1] # b}

D_clone_bucket(original, new) ==
    /\ buckets' = buckets \cup {new}
    /\ member' = member \cup {<<new, m[2]>> : m \in {x \in member : x[1] = original}}

D_remove_objects(b, S) ==
    member' = member \ {<<b, o>> : o \in S}

\* ------------------------------------------------- Filesystem (from its contract)

\* commit: the staged part becomes the blob of the object with the part's id
F_commit(p) ==
    /\ parts' = parts \ {p}
    /\ blobs' = [blobs EXCEPT ![p] = "good"]

\* remove_objects: deletes the blob files of S; a missing file is tolerated
F_remove_objects(S) ==
    blobs' = [id \in Ids |-> IF id \in S THEN "none" ELSE blobs[id]]

\* ------------------------------------------------- ObjectStore: buckets

\* add_bucket: a new bucket row under a fresh id
add_bucket ==
    /\ nextBucket <= MaxBucket
    /\ buckets' = buckets \cup {nextBucket}
    /\ nextBucket' = nextBucket + 1
    /\ UNCHANGED <<objects, created, member, errors, clock, blobs, parts, nextId,
                   pending, commitRes, pruneVars, passVars>>

clone_bucket(original) ==
    /\ original \in buckets
    /\ nextBucket <= MaxBucket
    /\ D_clone_bucket(original, nextBucket)
    /\ nextBucket' = nextBucket + 1
    /\ UNCHANGED <<objects, created, errors, clock, blobs, parts, nextId,
                   pending, commitRes, pruneVars, passVars>>

\* remove_bucket_cascade: the bucket's removal taking the rows of the objects
\* it leaves without a bucket
remove_bucket_cascade(b) ==
    /\ b \in buckets
    /\ D_remove_bucket(b)
    /\ objects' = {o \in objects : \E m \in member : m[1] # b /\ m[2] = o}
    /\ UNCHANGED <<nextBucket, created, errors, clock, blobs, parts,
                   nextId, pending, commitRes, pruneVars, passVars>>

\* remove_bucket: the bucket row and its membership rows go
remove_bucket(b) ==
    /\ b \in buckets
    /\ D_remove_bucket(b)
    /\ UNCHANGED <<nextBucket, objects, created, errors, clock, blobs, parts,
                   nextId, pending, commitRes, pruneVars, passVars>>

\* remove_object_unlink: remove_object deleting the blob file as well
remove_object_unlink(b, o) ==
    /\ <<b, o>> \in member
    /\ D_remove_objects(b, {o})
    /\ F_remove_objects({o})
    /\ UNCHANGED <<buckets, nextBucket, objects, created, errors, clock, parts,
                   nextId, pending, commitRes, pruneVars, passVars>>

\* remove_object: the membership row goes, the object row and the blob stay
\* (an unknown pair is NotFound and changes nothing)
remove_object(b, o) ==
    /\ <<b, o>> \in member
    /\ D_remove_objects(b, {o})
    /\ UNCHANGED <<buckets, nextBucket, objects, created, errors, clock, blobs,
                   parts, nextId, pending, commitRes, pruneVars, passVars>>

remove_objects(b, S) ==
    /\ b \in buckets
    /\ \E o \in S : <<b, o>> \in member
    /\ D_remove_objects(b, S)
    /\ UNCHANGED <<buckets, nextBucket, objects, created, errors, clock, blobs,
                   parts, nextId, pending, commitRes, pruneVars, passVars>>

\* ------------------------------------------------- ObjectStore: parts and commit

\* get_part(None): a staging file under a freshly generated id
get_part ==
    /\ nextId <= MaxParts
    /\ parts' = parts \cup {nextId}
    /\ nextId' = nextId + 1
    /\ UNCHANGED <<buckets, nextBucket, objects, created, member, errors, clock,
                   blobs, pending, commitRes, pruneVars, passVars>>

\* commit_part, first await: filesystem.commit(part_id) succeeded
commit_part_commit(b, p) ==
    /\ p \in parts
    /\ F_commit(p)
    /\ pending' = pending \cup {<<b, p>>}
    /\ UNCHANGED <<buckets, nextBucket, objects, created, member, errors, clock,
                   nextId, commitRes, pruneVars, passVars>>

\* commit_part, first await: filesystem.commit(part_id) failed (`?` returns)
commit_part_commit_err(p) ==
    /\ p \in parts
    /\ commitRes' = [commitRes EXCEPT ![p] = "FsError"]
    /\ UNCHANGED <<buckets, nextBucket, objects, created, member, errors, clock,
                   blobs, parts, nextId, pending, pruneVars, passVars>>

\* commit_part, second await: database.add_object succeeded
commit_part_add_object(b, p) ==
    /\ <<b, p>> \in pending
    /\ D_add_object_ok(b, p)
    /\ pending' = pending \ {<<b, p>>}
    /\ commitRes' = [commitRes EXCEPT ![p] = "Ok"]
    /\ UNCHANGED <<buckets, nextBucket, errors, blobs, parts, nextId, pruneVars, passVars>>

\* commit_part, second await: database.add_object failed (`?` returns the
\* database error); nothing undoes the filesystem commit
commit_part_add_object_err(b, p) ==
    /\ <<b, p>> \in pending
    /\ pending' = pending \ {<<b, p>>}
    /\ commitRes' = [commitRes EXCEPT ![p] = "DbError"]
    /\ UNCHANGED <<buckets, nextBucket, objects, created, member, errors, clock,
                   blobs, parts, nextId, pruneVars, passVars>>

\* ------------------------------------------------- ObjectStore: prune

\* the ids prune hands to filesystem.remove_objects
PruneTargets == pruneObjects

\* begin() and tx.remove_orphan_objects(): the orphan rows are deleted inside
\* the open transaction (other connections still see them until the commit)
prune_remove_orphan_objects ==
    /\ prunePc = "idle"
    /\ prunePc' = "tx"
    /\ pruneObjects' = D_orphans
    /\ pruneMissing' = {}
    /\ pruneRes' = "none"
    /\ UNCHANGED <<storeVars, pruneGone, passVars>>

\* begin() or remove_orphan_objects() failed
prune_db_err ==
    /\ prunePc = "idle"
    /\ pruneObjects' = {}
    /\ pruneMissing' = {}
    /\ pruneRes' = "Err"
    /\ UNCHANGED <<prunePc, pruneGone, storeVars, passVars>>

\* filesystem.remove_objects(...) succeeded
prune_remove_objects ==
    /\ prunePc = "tx"
    /\ F_remove_objects(PruneTargets)
    /\ pruneMissing' = {o \in PruneTargets : blobs[o] = "none"}
    /\ prunePc' = "removed"
    /\ UNCHANGED <<buckets, nextBucket, objects, created, member, errors, clock,
                   parts, nextId, pending, commitRes, pruneObjects, pruneGone, pruneRes,
                   passVars>>

\* prune_rollback_commits: the failure path committing the transaction
prune_rollback_commits ==
    /\ objects' = objects \ pruneObjects
    /\ created' = [id \in Ids |-> IF id \in pruneObjects THEN 0 ELSE created[id]]

\* the transaction handle is dropped without commit(): the deleted rows are back
prune_rollback ==
    UNCHANGED <<objects, created>>

\* filesystem.remove_objects(...) failed after deleting the files of Gone;
\* `?` returns before tx.commit()
prune_remove_objects_err(Gone) ==
    /\ prunePc = "tx"
    /\ Gone \subseteq PruneTargets /\ Gone # PruneTargets
    /\ F_remove_objects(Gone)
    /\ prune_rollback
    /\ pruneGone' = pruneGone \cup Gone
    /\ prunePc' = "idle"
    /\ pruneRes' = "Err"
    /\ UNCHANGED <<buckets, nextBucket, member, errors, clock, parts, nextId,
                   pending, commitRes, pruneObjects, pruneMissing,
                   passVars>>

\* prune_commit_keeps: Ok is returned although the deletion did not take effect
prune_commit_keeps ==
    /\ prunePc = "removed"
    /\ prunePc' = "idle"
    /\ pruneRes' = "Ok"
    /\ UNCHANGED <<storeVars, pruneObjects, pruneMissing, pruneGone, passVars>>

\* tx.commit() succeeded: the orphan rows are gone for everyone
prune_commit ==
    /\ prunePc = "removed"
    /\ objects' = objects \ pruneObjects
    /\ created' = [id \in Ids |-> IF id \in pruneObjects THEN 0 ELSE created[id]]
    /\ prunePc' = "idle"
    /\ pruneRes' = "Ok"
    /\ UNCHANGED <<buckets, nextBucket, member, errors, clock, blobs, parts,
                   nextId, pending, commitRes, pruneObjects, pruneMissing, pruneGone,
                   passVars>>

\* tx.commit() failed: the rows stay, the files are already deleted
prune_commit_err ==
    /\ prunePc = "removed"
    /\ prunePc' = "idle"
    /\ pruneRes' = "Err"
    /\ UNCHANGED <<storeVars, pruneObjects, pruneMissing, pruneGone, passVars>>

\* ------------------------------------------------- the object lifecycle

\* no call of check() or archive() has been made
InitPass ==
    /\ archiveDir = FALSE /\ dumpFile = FALSE /\ archived = {}
    /\ cpc = [c \in Calls |-> "idle"] /\ kind = [c \in Calls |-> "none"]
    /\ started = [c \in Calls |-> 0] /\ total = [c \in Calls |-> 0]
    /\ res = [c \in Calls |-> "none"] /\ handle = [c \in Calls |-> FALSE]
    /\ tpc = [c \in Calls |-> "none"] /\ rows = [c \in Calls |-> <<>>]
    /\ pos = [c \in Calls |-> 0] /\ error = [c \in Calls |-> FALSE]
    /\ taskRes = [c \in Calls |-> "none"]
    /\ finalFlush = [c \in Calls |-> "none"]
    /\ flushFailed = [c \in Calls |-> FALSE]
    /\ completed = [c \in Calls |-> 0]
    /\ errmap = [c \in Calls |-> [id \in Ids |-> <<>>]]
    /\ wpc = [c \in Calls |-> [id \in Ids |-> "none"]]
    /\ outcome = [c \in Calls |-> [id \in Ids |-> "none"]]

InitStore ==
    /\ InitPass /\ archivePath = FALSE
    /\ buckets = {} /\ nextBucket = 1
    /\ objects = {} /\ created = [id \in Ids |-> 0]
    /\ member = {} /\ errors = [id \in Ids |-> <<>>] /\ clock = 0
    /\ blobs = [id \in Ids |-> "none"] /\ parts = {} /\ nextId = 1
    /\ pending = {} /\ commitRes = [id \in Ids |-> "none"]
    /\ prunePc = "idle" /\ pruneObjects = {} /\ pruneMissing = {}
    /\ pruneGone = {} /\ pruneRes = "none"

NextStore ==
    \/ add_bucket
    \/ \E b \in Buckets : clone_bucket(b)
    \/ \E b \in Buckets : remove_bucket(b)
    \/ \E b \in Buckets, o \in Ids : remove_object(b, o)
    \/ \E b \in Buckets, S \in SUBSET Ids : remove_objects(b, S)
    \/ get_part
    \/ \E b \in Buckets, p \in Ids : commit_part_commit(b, p)
    \/ \E p \in Ids : commit_part_commit_err(p)
    \/ \E b \in Buckets, p \in Ids : commit_part_add_object(b, p)
    \/ \E b \in Buckets, p \in Ids : commit_part_add_object_err(b, p)
    \/ prune_remove_orphan_objects
    \/ prune_db_err
    \/ prune_remove_objects
    \/ \E Gone \in SUBSET Ids : prune_remove_objects_err(Gone)
    \/ prune_commit
    \/ prune_commit_err

SpecStore == InitStore /\ [][NextStore]_vars

\* ------------------------------------------------- Database: snapshots and errors

Snapshot(as_of) == {o \in objects : created[o] <= as_of}

\* get_object_count(as_of): the objects created at or before as_of
D_get_object_count(as_of) == Cardinality(Snapshot(as_of))

\* stream_objects(as_of): the rows of the same snapshot, by id
D_stream_objects(as_of) ==
    LET S == Snapshot(as_of)
    IN  CHOOSE s \in [1..Cardinality(S) -> S] :
            \A i, j \in 1..Cardinality(S) : i < j => s[i] < s[j]

\* update_object_errors: each listed object's message list is replaced
D_update_object_errors(S, lists) ==
    errors' = [id \in Ids |-> IF id \in S THEN lists[id] ELSE errors[id]]

\* ------------------------------------------------- Filesystem: check and copy

\* check(id, hash): the blob is there and hashes to the stored value
F_check(id) == blobs[id] = "good"

\* copy(id, archive, hash): the blob is there to be copied
F_copy(id) == blobs[id] # "none"

F_message(id) == IF blobs[id] = "none" THEN "missing" ELSE "mismatch"

\* remove_extraneous(archive): files without a blob under the primary root go
F_remove_extraneous == archived' = {id \in archived : blobs[id] # "none"}

\* ------------------------------------------------- ProgressGuard and the task slots

\* a handle of call c's guard is alive: the guard held by archive() itself, the
\* caller's Progress, the guard moved into for_each_object, a worker's clone
P_alive(c) ==
    \/ cpc[c] \in {"mkdir", "dump", "extraneous"}
    \/ handle[c]
    \/ tpc[c] \in {"open", "stream", "wait"}
    \/ \E id \in Ids : wpc[c][id] \in {"run", "flush"}

\* CheckSlotShared: check() handing tasks.archive to its guard
CheckSlotShared == "archive"

\* the slots check() and archive() hand to ProgressGuard::new
CheckSlot == "check"
ArchiveSlot == "archive"

SlotOf(c) ==
    IF kind[c] = "check" THEN CheckSlot
    ELSE IF kind[c] = "archive" THEN ArchiveSlot ELSE "none"

\* ProgressGuard::new fails with Busy: the slot holds a live guard
P_busy(slot, c) == \E d \in Calls \ {c} : SlotOf(d) = slot /\ P_alive(d)

\* messages(): the ids of the error map's entries
P_messages(c) == {id \in Ids : errmap[c][id] # <<>>}

\* ------------------------------------------------- ObjectStore: check and archive

\* check_guard_unchecked: the result of ProgressGuard::new not propagated
check_guard_unchecked(c) == FALSE

\* `ProgressGuard::new(started, total, self.tasks.check.clone())?` returns Busy
check_guard_busy(c) == P_busy(CheckSlot, c)

\* archive_guard_unchecked: archive() going on whatever the slot holds
archive_guard_unchecked(c) == FALSE

\* `ProgressGuard::new(started, total, self.tasks.archive.clone())?` returns Busy
archive_guard_busy(c) == P_busy(ArchiveSlot, c)

\* task::spawn(for_each_object(guard, action)) and Ok((progress, handle))
Spawn(c) ==
    /\ cpc' = [cpc EXCEPT ![c] = "returned"]
    /\ res' = [res EXCEPT ![c] = "Ok"]
    /\ handle' = [handle EXCEPT ![c] = TRUE]
    /\ tpc' = [tpc EXCEPT ![c] = "open"]

\* an early return of check() or archive() with an error
Fail(c, err) ==
    /\ cpc' = [cpc EXCEPT ![c] = "returned"]
    /\ res' = [res EXCEPT ![c] = err]
    /\ UNCHANGED <<handle, tpc>>

\* check(): started = Local::now(), get_object_count is awaited
check_now(c) ==
    /\ cpc[c] = "idle"
    /\ cpc' = [cpc EXCEPT ![c] = "count"]
    /\ kind' = [kind EXCEPT ![c] = "check"]
    /\ started' = [started EXCEPT ![c] = clock]
    /\ UNCHANGED <<storeVars, pruneVars, archVars, total, res, handle, taskVars>>

\* get_object_count failed: Internal, before any guard
count_err(c) ==
    /\ cpc[c] = "count"
    /\ Fail(c, "Internal")
    /\ UNCHANGED <<storeVars, pruneVars, archVars, kind, started, total,
                   rows, pos, error, taskRes, finalFlush, flushFailed, completed,
                   errmap, wpc, outcome>>

\* check(): the count is back, the guard is made and the task is spawned
check_guard(c) ==
    /\ cpc[c] = "count" /\ kind[c] = "check"
    /\ total' = [total EXCEPT ![c] = D_get_object_count(started[c])]
    /\ IF check_guard_busy(c) THEN Fail(c, "Busy") ELSE Spawn(c)
    /\ UNCHANGED <<storeVars, pruneVars, archVars, kind, started,
                   rows, pos, error, taskRes, finalFlush, flushFailed, completed,
                   errmap, wpc, outcome>>

\* archive() on a store without an archive path
archive_no_path(c) ==
    /\ cpc[c] = "idle" /\ ~archivePath
    /\ kind' = [kind EXCEPT ![c] = "archive"]
    /\ Fail(c, "Internal")
    /\ UNCHANGED <<storeVars, pruneVars, archVars, started, total,
                   rows, pos, error, taskRes, finalFlush, flushFailed, completed,
                   errmap, wpc, outcome>>

\* archive_now_unchecked: archive() going on without an archive location
archive_now_unchecked(c) ==
    /\ cpc[c] = "idle"
    /\ cpc' = [cpc EXCEPT ![c] = "count"]
    /\ kind' = [kind EXCEPT ![c] = "archive"]
    /\ started' = [started EXCEPT ![c] = clock]
    /\ UNCHANGED <<storeVars, pruneVars, archVars, total, res, handle, taskVars>>

\* archive(): the archive location is there, started = Local::now(),
\* get_object_count is awaited
archive_now(c) ==
    /\ cpc[c] = "idle" /\ archivePath
    /\ cpc' = [cpc EXCEPT ![c] = "count"]
    /\ kind' = [kind EXCEPT ![c] = "archive"]
    /\ started' = [started EXCEPT ![c] = clock]
    /\ UNCHANGED <<storeVars, pruneVars, archVars, total, res, handle, taskVars>>

\* archive(): the count is back and the guard is made
archive_guard(c) ==
    /\ cpc[c] = "count" /\ kind[c] = "archive"
    /\ total' = [total EXCEPT ![c] = D_get_object_count(started[c])]
    /\ IF archive_guard_busy(c)
       THEN Fail(c, "Busy")
       ELSE cpc' = [cpc EXCEPT ![c] = "mkdir"] /\ UNCHANGED <<res, handle, tpc>>
    /\ UNCHANGED <<storeVars, pruneVars, archVars, kind, started,
                   rows, pos, error, taskRes, finalFlush, flushFailed, completed,
                   errmap, wpc, outcome>>

\* tokio::fs::create_dir_all(archive)
archive_create_dir(c) ==
    /\ cpc[c] = "mkdir"
    /\ archiveDir' = TRUE
    /\ cpc' = [cpc EXCEPT ![c] = "dump"]
    /\ UNCHANGED <<storeVars, pruneVars, archivePath, dumpFile, archived,
                   kind, started, total, res, handle, taskVars>>

\* db_support.dump(<archive>/fstore.dump)
archive_dump(c) ==
    /\ cpc[c] = "dump"
    /\ dumpFile' = TRUE
    /\ cpc' = [cpc EXCEPT ![c] = "extraneous"]
    /\ UNCHANGED <<storeVars, pruneVars, archivePath, archiveDir, archived,
                   kind, started, total, res, handle, taskVars>>

\* filesystem.remove_extraneous(archive), then the task is spawned
archive_remove_extraneous(c) ==
    /\ cpc[c] = "extraneous"
    /\ F_remove_extraneous
    /\ Spawn(c)
    /\ UNCHANGED <<storeVars, pruneVars, archivePath, archiveDir, dumpFile,
                   kind, started, total,
                   rows, pos, error, taskRes, finalFlush, flushFailed, completed,
                   errmap, wpc, outcome>>

\* archive_step_err_held: the failing archive() leaving a handle of its guard
\* alive
archive_step_err_held(c) ==
    /\ cpc[c] \in {"mkdir", "dump", "extraneous"}
    /\ cpc' = [cpc EXCEPT ![c] = "returned"]
    /\ res' = [res EXCEPT ![c] = "Internal"]
    /\ handle' = [handle EXCEPT ![c] = TRUE]
    /\ UNCHANGED <<storeVars, pruneVars, archVars, kind, started, total, taskVars>>

\* create_dir_all, dump or remove_extraneous failed: `?` returns Internal and
\* archive()'s guard is dropped
archive_step_err(c) ==
    /\ cpc[c] \in {"mkdir", "dump", "extraneous"}
    /\ Fail(c, "Internal")
    /\ UNCHANGED <<storeVars, pruneVars, archVars, kind, started, total,
                   rows, pos, error, taskRes, finalFlush, flushFailed, completed,
                   errmap, wpc, outcome>>

\* the caller drops the Progress it was given
drop_progress(c) ==
    /\ handle[c]
    /\ handle' = [handle EXCEPT ![c] = FALSE]
    /\ UNCHANGED <<storeVars, pruneVars, archVars, cpc, kind, started, total, res,
                   taskVars>>

\* the caller is done with the call: its result and JoinHandle are dropped
forget(c) ==
    /\ cpc[c] = "returned" /\ ~handle[c] /\ tpc[c] \in {"none", "done"}
    /\ cpc' = [cpc EXCEPT ![c] = "idle"]
    /\ kind' = [kind EXCEPT ![c] = "none"]
    /\ started' = [started EXCEPT ![c] = 0]
    /\ total' = [total EXCEPT ![c] = 0]
    /\ res' = [res EXCEPT ![c] = "none"]
    /\ tpc' = [tpc EXCEPT ![c] = "none"]
    /\ rows' = [rows EXCEPT ![c] = <<>>]
    /\ pos' = [pos EXCEPT ![c] = 0]
    /\ error' = [error EXCEPT ![c] = FALSE]
    /\ taskRes' = [taskRes EXCEPT ![c] = "none"]
    /\ finalFlush' = [finalFlush EXCEPT ![c] = "none"]
    /\ flushFailed' = [flushFailed EXCEPT ![c] = FALSE]
    /\ completed' = [completed EXCEPT ![c] = 0]
    /\ errmap' = [errmap EXCEPT ![c] = [id \in Ids |-> <<>>]]
    /\ wpc' = [wpc EXCEPT ![c] = [id \in Ids |-> "none"]]
    /\ outcome' = [outcome EXCEPT ![c] = [id \in Ids |-> "none"]]
    /\ UNCHANGED <<storeVars, pruneVars, archVars, handle>>

\* ------------------------------------------------- ObjectStore: for_each_object

\* what action.run returns: CheckAction is F.check, SyncAction is F.copy
ActionOk(k, id) == IF k = "check" THEN F_check(id) ELSE F_copy(id)

\* stream_open_now: the cursor opened as of the present, not as of started()
stream_open_now(c) ==
    /\ tpc[c] = "open"
    /\ tpc' = [tpc EXCEPT ![c] = "stream"]
    /\ rows' = [rows EXCEPT ![c] = D_stream_objects(clock)]
    /\ UNCHANGED <<storeVars, pruneVars, archVars, callVars, pos, error, taskRes,
                   finalFlush, flushFailed, completed, errmap, wpc, outcome>>

\* the first poll of the stream: the cursor's query runs
stream_open(c) ==
    /\ tpc[c] = "open"
    /\ tpc' = [tpc EXCEPT ![c] = "stream"]
    /\ rows' = [rows EXCEPT ![c] = D_stream_objects(started[c])]
    /\ UNCHANGED <<storeVars, pruneVars, archVars, callVars, pos, error, taskRes,
                   finalFlush, flushFailed, completed, errmap, wpc, outcome>>

\* PermitAlways: the worker is spawned without a permit
PermitAlways(c) == TRUE

\* PermitLeaked: a worker's permit never given back to the semaphore
PermitLeaked(c) == Cardinality({id \in Ids : wpc[c][id] # "none"}) < NumCpus

\* semaphore.acquire_owned() returns: fewer than N permits are out
PermitAvailable(c) == Cardinality({id \in Ids : wpc[c][id] = "run"}) < NumCpus

\* stream_next_held: the loop going on only while the caller holds its Progress
stream_next_held(c) ==
    /\ tpc[c] = "stream"
    /\ handle[c]
    /\ pos[c] < Len(rows[c])
    /\ PermitAvailable(c)
    /\ pos' = [pos EXCEPT ![c] = pos[c] + 1]
    /\ wpc' = [wpc EXCEPT ![c][rows[c][pos[c] + 1]] = "run"]
    /\ UNCHANGED <<storeVars, pruneVars, archVars, callVars, tpc, rows, error,
                   taskRes, finalFlush, flushFailed, completed, errmap, outcome>>

\* stream.next() yields Ok(object); a permit is acquired and the worker spawned
stream_next(c) ==
    /\ tpc[c] = "stream"
    /\ pos[c] < Len(rows[c])
    /\ PermitAvailable(c)
    /\ pos' = [pos EXCEPT ![c] = pos[c] + 1]
    /\ wpc' = [wpc EXCEPT ![c][rows[c][pos[c] + 1]] = "run"]
    /\ UNCHANGED <<storeVars, pruneVars, archVars, callVars, tpc, rows, error,
                   taskRes, finalFlush, flushFailed, completed, errmap, outcome>>

\* stream_err_continue: the error is kept but the loop goes on
stream_err_continue(c) ==
    /\ tpc[c] = "stream"
    /\ ~error[c]
    /\ error' = [error EXCEPT ![c] = TRUE]
    /\ UNCHANGED <<storeVars, pruneVars, archVars, callVars, tpc, rows, pos,
                   taskRes, finalFlush, flushFailed, completed, errmap, wpc,
                   outcome>>

\* stream.next() yields Err: error = Some(Internal), break 'stream
stream_err(c) ==
    /\ tpc[c] = "stream"
    /\ error' = [error EXCEPT ![c] = TRUE]
    /\ tpc' = [tpc EXCEPT ![c] = "wait"]
    /\ UNCHANGED <<storeVars, pruneVars, archVars, callVars, rows, pos,
                   taskRes, finalFlush, flushFailed, completed, errmap, wpc,
                   outcome>>

\* stream.next() yields None: the loop ends
stream_end(c) ==
    /\ tpc[c] = "stream"
    /\ pos[c] = Len(rows[c])
    /\ tpc' = [tpc EXCEPT ![c] = "wait"]
    /\ UNCHANGED <<storeVars, pruneVars, archVars, callVars, rows, pos, error,
                   taskRes, finalFlush, flushFailed, completed, errmap, wpc,
                   outcome>>

\* the worker of row id: action.run returns, the outcome goes into the guard
\* (clear_error or error), increment(), drop(permit); an empty message list
\* ends the worker, a non-empty one is flushed next
worker_run(c, id) ==
    /\ wpc[c][id] = "run"
    /\ LET ok == ActionOk(kind[c], id)
       IN  /\ outcome' = [outcome EXCEPT ![c][id] = IF ok THEN "ok" ELSE F_message(id)]
           /\ errmap' = [errmap EXCEPT ![c][id] =
                            IF ok THEN <<>> ELSE Append(@, F_message(id))]
           /\ wpc' = [wpc EXCEPT ![c][id] = IF ok THEN "done" ELSE "flush"]
           /\ archived' = IF ok /\ kind[c] = "archive"
                          THEN archived \cup {id} ELSE archived
    /\ completed' = [completed EXCEPT ![c] = @ + 1]
    /\ UNCHANGED <<storeVars, pruneVars, archivePath, archiveDir, dumpFile,
                   callVars, tpc, rows, pos, error, taskRes, finalFlush,
                   flushFailed>>

\* the worker's update_object_errors(&messages) succeeded
worker_flush(c, id) ==
    /\ wpc[c][id] = "flush"
    /\ D_update_object_errors({id}, errmap[c])
    /\ wpc' = [wpc EXCEPT ![c][id] = "done"]
    /\ UNCHANGED <<buckets, nextBucket, objects, created, member, clock, blobs,
                   parts, nextId, pending, commitRes, pruneVars, archVars,
                   callVars, tpc, rows, pos, error, taskRes, finalFlush,
                   flushFailed, completed, errmap, outcome>>

\* the worker's update_object_errors(&messages) failed: logged only
worker_flush_err(c, id) ==
    /\ wpc[c][id] = "flush"
    /\ wpc' = [wpc EXCEPT ![c][id] = "done"]
    /\ flushFailed' = [flushFailed EXCEPT ![c] = TRUE]
    /\ UNCHANGED <<storeVars, pruneVars, archVars, callVars, tpc, rows, pos,
                   error, taskRes, finalFlush, completed, errmap, outcome>>

\* tracker.close(); tracker.wait() returns: no spawned worker is unfinished
TrackerIdle(c) == \A id \in Ids : wpc[c][id] \in {"none", "done"}

\* ResultStrict: a recorded object error fails the pass
ResultStrict(c) ==
    IF error[c] \/ P_messages(c) # {} THEN "Internal" ELSE "Ok"

\* match error { Some(err) => Err(err), None => Ok(()) }
Result(c) == IF error[c] THEN "Internal" ELSE "Ok"

\* after the workers: progress.messages() is flushed if it is not empty, and
\* for_each_object returns (its guard is dropped)
pass_flush(c) ==
    /\ tpc[c] = "wait"
    /\ TrackerIdle(c)
    /\ IF P_messages(c) = {}
       THEN /\ finalFlush' = [finalFlush EXCEPT ![c] = "empty"]
            /\ UNCHANGED errors
       ELSE /\ finalFlush' = [finalFlush EXCEPT ![c] = "ok"]
            /\ D_update_object_errors(P_messages(c), errmap[c])
    /\ tpc' = [tpc EXCEPT ![c] = "done"]
    /\ taskRes' = [taskRes EXCEPT ![c] = Result(c)]
    /\ UNCHANGED <<buckets, nextBucket, objects, created, member, clock, blobs,
                   parts, nextId, pending, commitRes, pruneVars, archVars,
                   callVars, rows, pos, error, flushFailed, completed, errmap,
                   wpc, outcome>>

\* the final update_object_errors failed: logged only
pass_flush_err(c) ==
    /\ tpc[c] = "wait"
    /\ TrackerIdle(c)
    /\ P_messages(c) # {}
    /\ finalFlush' = [finalFlush EXCEPT ![c] = "failed"]
    /\ flushFailed' = [flushFailed EXCEPT ![c] = TRUE]
    /\ tpc' = [tpc EXCEPT ![c] = "done"]
    /\ taskRes' = [taskRes EXCEPT ![c] = Result(c)]
    /\ UNCHANGED <<storeVars, pruneVars, archVars, callVars, rows, pos, error,
                   completed, errmap, wpc, outcome>>

\* ------------------------------------------------- outside the store

\* a blob is damaged on disk (its bytes no longer hash to the stored value)
truncate(id) ==
    /\ blobs[id] = "good"
    /\ blobs' = [blobs EXCEPT ![id] = "bad"]
    /\ UNCHANGED <<buckets, nextBucket, objects, created, member, errors, clock,
                   parts, nextId, pending, commitRes, pruneVars, passVars>>

\* a damaged blob is repaired on disk
repair(id) ==
    /\ blobs[id] = "bad"
    /\ blobs' = [blobs EXCEPT ![id] = "good"]
    /\ UNCHANGED <<buckets, nextBucket, objects, created, member, errors, clock,
                   parts, nextId, pending, commitRes, pruneVars, passVars>>

\* ------------------------------------------------- the passes

\* a store holding n committed objects in one bucket, the blobs of Damaged
\* damaged on disk
Populated(n, Damaged) ==
    /\ buckets = {1} /\ nextBucket = 2
    /\ objects = 1..n
    /\ created = [id \in Ids |-> IF id <= n THEN id ELSE 0]
    /\ member = {<<1, id>> : id \in 1..n}
    /\ errors = [id \in Ids |-> <<>>] /\ clock = n
    /\ blobs = [id \in Ids |-> IF id \in Damaged THEN "bad"
                                ELSE IF id <= n THEN "good" ELSE "none"]
    /\ parts = {} /\ nextId = n + 1
    /\ pending = {} /\ commitRes = [id \in Ids |-> IF id <= n THEN "Ok" ELSE "none"]
    /\ prunePc = "idle" /\ pruneObjects = {} /\ pruneMissing = {}
    /\ pruneGone = {} /\ pruneRes = "none"

CheckStep(c) ==
    \/ check_now(c)
    \/ count_err(c)
    \/ check_guard(c)
    \/ drop_progress(c)
    \/ forget(c)

ArchiveStep(c) ==
    \/ archive_no_path(c)
    \/ archive_now(c)
    \/ archive_guard(c)
    \/ archive_create_dir(c)
    \/ archive_dump(c)
    \/ archive_remove_extraneous(c)
    \/ archive_step_err(c)

TaskStep(c) ==
    \/ stream_open(c)
    \/ stream_next(c)
    \/ stream_err(c)
    \/ stream_end(c)
    \/ \E id \in Ids : worker_run(c, id)
    \/ \E id \in Ids : worker_flush(c, id)
    \/ \E id \in Ids : worker_flush_err(c, id)
    \/ pass_flush(c)
    \/ pass_flush_err(c)

\* one caller running check passes over a store whose blobs get damaged and
\* repaired
InitPasses ==
    /\ InitPass /\ archivePath = FALSE
    /\ \E n \in 0..MaxId : Populated(n, {})

NextPasses ==
    \/ CheckStep(1)
    \/ TaskStep(1)
    \/ \E id \in Ids : truncate(id)
    \/ \E id \in Ids : repair(id)

SpecPasses == InitPasses /\ [][NextPasses]_vars

\* concurrent callers of check() and archive()
InitTasks ==
    /\ InitPass /\ archivePath \in BOOLEAN
    /\ \E n \in 0..1 : \E Damaged \in SUBSET (1..n) : Populated(n, Damaged)

NextTasks == \E c \in Calls : CheckStep(c) \/ ArchiveStep(c) \/ TaskStep(c)

SpecTasks == InitTasks /\ [][NextTasks]_vars

\* ------------------------------------------------- prune calls in succession

\* a store after n commits and some removals: the memberships M are left, the
\* blobs of the orphans in Lost are gone (a prune whose tx.commit() failed),
\* the blobs of Unlisted have no row (a commit_part whose add_object failed)
Stored(n, M, Lost, Unl) ==
    /\ buckets = Buckets /\ nextBucket = MaxBucket + 1
    /\ objects = 1..n
    /\ created = [id \in Ids |-> IF id <= n THEN id ELSE 0]
    /\ member = M
    /\ errors = [id \in Ids |-> <<>>] /\ clock = n
    /\ blobs = [id \in Ids |-> IF (id <= n /\ id \notin Lost) \/ id \in Unl
                                THEN "good" ELSE "none"]
    /\ parts = {} /\ nextId = n + 1 + Cardinality(Unl)
    /\ pending = {}
    /\ commitRes = [id \in Ids |-> IF id <= n THEN "Ok"
                                    ELSE IF id \in Unl THEN "DbError" ELSE "none"]
    /\ prunePc = "idle" /\ pruneObjects = {} /\ pruneMissing = {}
    /\ pruneGone = {} /\ pruneRes = "none"

InitPrune ==
    /\ InitPass /\ archivePath = FALSE
    /\ \E n \in 0..MaxParts :
         \E M \in SUBSET (Buckets \X (1..n)) :
            \E Lost \in SUBSET ((1..n) \ {m[2] : m \in M}) :
               \E Unl \in {{}, {n + 1}} :
                  Stored(n, M, Lost, Unl)

\* nothing but prune is called
NextPrune ==
    \/ prune_remove_orphan_objects
    \/ prune_db_err
    \/ prune_remove_objects
    \/ \E Gone \in SUBSET Ids : prune_remove_objects_err(Gone)
    \/ prune_commit
    \/ prune_commit_err

SpecPrune == InitPrune /\ [][NextPrune]_vars

\* ------------------------------------------------- passes over a store in use

\* one caller running check and archive passes while parts are committed, the
\* bucket is removed and prune runs
InitLive ==
    /\ InitPass /\ archivePath = TRUE
    /\ \E n \in 0..1 : Populated(n, {})

NextLive ==
    \/ check_now(1)
    \/ check_guard(1)
    \/ archive_now(1)
    \/ archive_guard(1)
    \/ archive_create_dir(1)
    \/ archive_dump(1)
    \/ archive_remove_extraneous(1)
    \/ drop_progress(1)
    \/ forget(1)
    \/ TaskStep(1)
    \/ get_part
    \/ \E b \in Buckets, p \in Ids : commit_part_commit(b, p)
    \/ \E b \in Buckets, p \in Ids : commit_part_add_object(b, p)
    \/ \E b \in Buckets : remove_bucket(b)
    \/ prune_remove_orphan_objects
    \/ prune_remove_objects
    \/ prune_commit
    \/ prune_commit_err

SpecLive == InitLive /\ [][NextLive]_vars

\* ------------------------------------------------- passes under a fair scheduler

\* passes over a store with more objects than permits, the blob of one
\* damaged
InitFair ==
    /\ InitPass /\ archivePath \in BOOLEAN
    /\ Populated(MaxId, {1})

\* the caller of a pass and a caller that comes while or after it runs
Pair == {1, 2}

\* the two call archive() on a store with an archive location and check() on
\* one without
NextFair ==
    \E c \in Pair :
        \/ ~archivePath /\ check_now(c)
        \/ check_guard(c)
        \/ archive_now(c)
        \/ archive_guard(c)
        \/ archive_create_dir(c)
        \/ archive_dump(c)
        \/ archive_remove_extraneous(c)
        \/ archive_step_err(c)
        \/ count_err(c)
        \/ drop_progress(c)
        \/ forget(c)
        \/ TaskStep(c)

\* the executor runs every task that can run: the driver's stream poll, each
\* spawned worker, each flush; a fetch error is not bound to happen
FairTask(c) ==
    /\ WF_vars(stream_open(c))
    /\ WF_vars(stream_next(c))
    /\ WF_vars(stream_end(c))
    /\ \A id \in Ids : WF_vars(worker_run(c, id))
    /\ \A id \in Ids : WF_vars(worker_flush(c, id) \/ worker_flush_err(c, id))
    /\ WF_vars(pass_flush(c) \/ pass_flush_err(c))

SpecFair == InitFair /\ [][NextFair]_vars /\ \A c \in Pair : FairTask(c)

\* ------------------------------------------------- properties

\* the workers of call c that hold a permit / that are not finished
Permitted(c) == {id \in Ids : wpc[c][id] = "run"}
Unfinished(c) == {id \in Ids : wpc[c][id] \in {"run", "flush"}}

\* C1: for each operation (check, archive) at most one guard is alive at any
\* time, whatever the interleaving of the calls, and a call that failed with
\* Busy has spawned no background task and no worker.
C1_OnePassPerOperation ==
    /\ \A c, d \in Calls :
          (c # d /\ P_alive(c) /\ P_alive(d)) => kind[c] # kind[d]
    /\ \A c \in Calls :
          res[c] = "Busy" =>
              /\ tpc[c] = "none" /\ ~handle[c]
              /\ \A id \in Ids : wpc[c][id] = "none"

\* a check() failed with Busy while another check pass was streaming
C1_Witness ==
    \E c, d \in Calls :
        /\ c # d /\ kind[c] = "check" /\ kind[d] = "check"
        /\ tpc[c] = "stream" /\ res[d] = "Busy"

\* C2: a call fails with Busy only when a guard of the same operation is
\* alive: a live archive guard never makes check() Busy, nor a live check
\* guard archive().
C2_SlotsIndependent ==
    [][\A c \in Calls :
          (res[c] # "Busy" /\ res'[c] = "Busy") =>
              \E d \in Calls \ {c} : kind[d] = kind[c] /\ P_alive(d)]_vars

\* a check pass and an archive pass are streaming at the same time
C2_Witness ==
    \E c, d \in Calls :
        /\ kind[c] = "check" /\ kind[d] = "archive"
        /\ res[c] = "Ok" /\ res[d] = "Ok"
        /\ tpc[c] = "stream" /\ tpc[d] = "stream"

\* the catalog's list for an object the pass ran its action on
Expected(c, id) == IF outcome[c][id] = "ok" THEN <<>> ELSE <<outcome[c][id]>>

\* C3: when a pass has returned and none of its catalog flushes failed, the
\* catalog's error list of every object it processed is the outcome of this
\* pass's action: the message if it failed, empty if it succeeded.
C3_CatalogIsOutcome ==
    \A c \in Calls :
        (tpc[c] = "done" /\ ~flushFailed[c]) =>
            \A id \in Ids :
                outcome[c][id] # "none" => errors[id] = Expected(c, id)

\* C4: a pass whose stream gave no fetch error returns Ok however many actions
\* failed, has dispatched every row of the stream to a worker that finished,
\* and holds each failing object's message in its guard.
C4_ActionErrorsDoNotFail ==
    \A c \in Calls :
        (tpc[c] = "done" /\ ~error[c]) =>
            /\ taskRes[c] = "Ok"
            /\ pos[c] = Len(rows[c])
            /\ \A i \in 1..Len(rows[c]) : wpc[c][rows[c][i]] = "done"
            /\ \A id \in Ids :
                  outcome[c][id] \notin {"none", "ok"} =>
                      errmap[c][id] = <<outcome[c][id]>>

\* a pass over two or more rows, every action failed, returned Ok
C4_Witness ==
    \E c \in Calls :
        /\ tpc[c] = "done" /\ taskRes[c] = "Ok" /\ Len(rows[c]) >= 2
        /\ \A i \in 1..Len(rows[c]) : outcome[c][rows[c][i]] = "mismatch"

\* C5: once the stream has given a fetch error the loop is left: no further
\* row is pulled and no further worker spawned; for_each_object returns only
\* after every dispatched worker has finished and after the final flush of the
\* guard's messages, and it returns Internal.
C5_FetchErrorEndsPass ==
    [][\A c \in Calls :
          /\ error'[c] => tpc'[c] \in {"wait", "done"}
          /\ (error[c] /\ error'[c]) =>
                /\ pos'[c] = pos[c]
                /\ \A id \in Ids : wpc[c][id] = "none" => wpc'[c][id] = "none"
          /\ (error'[c] /\ tpc'[c] = "done") =>
                /\ taskRes'[c] = "Internal"
                /\ \A id \in Ids : wpc'[c][id] \in {"none", "done"}
                /\ \A i \in 1..pos'[c] : wpc'[c][rows'[c][i]] = "done"
                /\ finalFlush'[c] # "none"
                /\ finalFlush'[c] = "ok" =>
                      \A id \in Ids :
                          errmap'[c][id] # <<>> => errors'[id] = errmap'[c][id]
      ]_vars

\* a pass ended by a fetch error with rows left in the stream, after a worker
\* had been dispatched and its failure flushed at the end
C5_Witness ==
    \E c \in Calls :
        /\ tpc[c] = "done" /\ error[c] /\ taskRes[c] = "Internal"
        /\ 1 <= pos[c] /\ pos[c] < Len(rows[c])
        /\ finalFlush[c] = "ok"

\* C6 as claimed: at most N workers are unfinished (spawned and not through
\* with all their steps, the catalog flush included).
C6_AtMostNUnfinished ==
    \A c \in Calls : Cardinality(Unfinished(c)) <= NumCpus

\* C6 amended: at most N workers hold a permit, that is, are between their
\* spawn and the drop(permit) after action.run, the guard update and
\* increment(); a worker flushing its messages holds none.
C6_AtMostNPermits ==
    \A c \in Calls : Cardinality(Permitted(c)) <= NumCpus

\* N workers hold permits while another one, its permit released, is flushing
C6_Witness ==
    \E c \in Calls :
        /\ Cardinality(Permitted(c)) = NumCpus
        /\ \E id \in Ids : wpc[c][id] = "flush"

Unlisted == {id \in Ids : blobs[id] # "none" /\ id \notin objects}

\* C8: when prune returns Ok and no commit_part is in progress, no object row
\* is without a bucket membership and no blob file is without an object row.
C8_PruneLeavesNothing ==
    [][(prunePc = "removed" /\ pruneRes' = "Ok" /\ pending' = {}) =>
          (D_orphans' = {} /\ Unlisted' = {})]_vars

\* C9: a blob whose commit_part returned the database error is gone once a
\* later prune has returned Ok.
C9_PruneReclaimsFailedCommit ==
    [][(prunePc = "removed" /\ pruneRes' = "Ok") =>
          \A id \in Ids : commitRes[id] = "DbError" => blobs'[id] = "none"]_vars

\* C10: a prune whose filesystem removal fails leaves the catalog's rows as
\* they were; after any failed prune the rows it had selected are still
\* orphan rows (a later prune selects them again), and a prune that returned
\* Ok has removed the rows and the blobs of all it selected, also of those
\* whose blob was already gone.
C10_FailedPruneRestores ==
    [][/\ (prunePc = "tx" /\ pruneRes' = "Err") =>
              objects' = objects /\ created' = created /\ member' = member
       /\ pruneRes' = "Err" => pruneObjects' \subseteq D_orphans'
       /\ pruneRes' = "Ok" =>
              \A o \in pruneObjects' : o \notin objects' /\ blobs'[o] = "none"
      ]_vars

\* a prune returned Ok for an orphan whose blob a failed filesystem removal of
\* an earlier prune had already deleted
C10_Witness ==
    /\ pruneRes = "Ok"
    /\ pruneObjects \cap pruneGone \cap pruneMissing # {}

\* C11: with nothing but prune running, the prune called after a prune that
\* returned Ok finds no orphan row (its list is empty), and a prune whose list
\* is empty changes no blob file and no row of the catalog.
C11_PruneIdempotent ==
    [][/\ (prunePc = "idle" /\ pruneRes = "Ok" /\ prunePc' = "tx") =>
              pruneObjects' = {}
       /\ (prunePc # "idle" /\ pruneObjects = {}) =>
              /\ blobs' = blobs /\ parts' = parts
              /\ objects' = objects /\ created' = created
              /\ member' = member /\ buckets' = buckets /\ errors' = errors
       /\ (prunePc = "removed" /\ pruneObjects = {} /\ pruneRes' # "none") =>
              pruneRes' \in {"Ok", "Err"} /\ pruneObjects' = {}
      ]_vars

\* a prune has returned Ok with an empty list after an earlier prune had
\* removed the row of a committed object, other blobs being still on disk
C11_Witness ==
    /\ prunePc = "idle" /\ pruneRes = "Ok" /\ pruneObjects = {}
    /\ \E id \in Ids : commitRes[id] = "Ok" /\ id \notin objects
    /\ \E id \in Ids : blobs[id] # "none"

C13_SnapshotArchived ==
    \A c \in Calls :
        (kind[c] = "archive" /\ res[c] = "Ok" /\ tpc[c] = "done"
            /\ taskRes[c] = "Ok") =>
            /\ dumpFile
            /\ \A o \in Snapshot(started[c]) : o \in archived

\* the rows of call c's stream
Streamed(c) == {rows[c][i] : i \in 1..Len(rows[c])}

\* C14: an object whose row was created after the pass's started timestamp
\* is not among the rows of the pass's stream, has no worker of the pass, and
\* has no outcome and no error entry in the pass's guard.
C14_SnapshotOnly ==
    \A c \in Calls : \A id \in objects :
        (cpc[c] # "idle" /\ created[id] > started[c]) =>
            /\ id \notin Streamed(c)
            /\ wpc[c][id] = "none"
            /\ outcome[c][id] = "none"
            /\ errmap[c][id] = <<>>

\* a pass has finished over an older object while an object committed after
\* the pass's started timestamp is in the catalog
C14_Witness ==
    \E c \in Calls : \E id \in objects :
        /\ tpc[c] = "done" /\ Len(rows[c]) >= 1
        /\ created[id] > started[c] /\ commitRes[id] = "Ok"

\* C18: when a pass has finished without a stream-fetch error, its completed
\* counter equals its total and its stream has yielded total rows.
C18_CompletedIsTotal ==
    \A c \in Calls :
        (tpc[c] = "done" /\ ~error[c]) =>
            /\ completed[c] = total[c]
            /\ Len(rows[c]) = total[c]

\* C15: on a store without an archive path every archive() call has returned
\* Internal without taking a timestamp or a count, holds no guard (the archive
\* slot is vacant), and has no background task and no worker; no archive
\* directory, dump file or archived copy exists.
C15_NoPathFailsFirst ==
    ~archivePath =>
        /\ ~archiveDir /\ ~dumpFile /\ archived = {}
        /\ \A c \in Calls :
              kind[c] = "archive" =>
                  /\ cpc[c] = "returned" /\ res[c] = "Internal"
                  /\ started[c] = 0 /\ total[c] = 0
                  /\ ~P_alive(c) /\ ~P_busy(ArchiveSlot, c)
                  /\ tpc[c] = "none"
                  /\ \A id \in Ids : wpc[c][id] = "none"

\* archive() has failed with Internal on a store without an archive path
\* while a check pass is streaming
C15_Witness ==
    /\ ~archivePath
    /\ \E c, d \in Calls :
          /\ kind[c] = "archive" /\ res[c] = "Internal"
          /\ kind[d] = "check" /\ tpc[d] = "stream"

\* the background task of call c is running
Running(c) == tpc[c] \in {"open", "stream", "wait"}

\* C16: a pass whose caller has dropped the Progress while the background
\* task runs still comes to its end: the task returns after the final flush
\* step, and unless the stream gave a fetch error every row of the stream has
\* been dispatched to a worker that finished; as long as the task runs, a
\* call of the same operation by another caller is not given a pass.
C16_DroppedHandlesPassRuns ==
    /\ \A c \in Calls :
          (Running(c) /\ ~handle[c]) ~>
              /\ tpc[c] = "done" /\ finalFlush[c] # "none"
              /\ \/ error[c]
                 \/ /\ pos[c] = Len(rows[c])
                    /\ \A i \in 1..Len(rows[c]) : wpc[c][rows[c][i]] = "done"
    /\ [][\A c, d \in Calls :
            (c # d /\ Running(c) /\ ~handle[c] /\ kind[d] = kind[c]
                /\ cpc[d] = "count" /\ cpc'[d] # "count")
            => (cpc'[d] = "returned" /\ res'[d] \in {"Busy", "Internal"}
                   /\ tpc'[d] = "none")]_vars

\* the caller has dropped its Progress, the task has dispatched every row of
\* a stream longer than the permits and awaits its workers, and another
\* caller's call of the same operation has failed with Busy
C16_Witness ==
    \E c, d \in Calls :
        /\ c # d /\ kind[c] = kind[d]
        /\ tpc[c] = "wait" /\ ~handle[c]
        /\ pos[c] = Len(rows[c]) /\ Len(rows[c]) > NumCpus
        /\ res[d] = "Busy"

\* C17: every spawned pass eventually returns; when it has returned and the
\* caller has dropped its Progress, no guard of the call is alive, and a call
\* that finds every other call of the same operation returned (or not yet at
\* its guard), its task returned and its Progress dropped, does not fail with
\* Busy.
C17_PassFinishes ==
    /\ \A c \in Calls : (tpc[c] = "open") ~> (tpc[c] = "done")
    /\ [](\A c \in Calls : (tpc[c] = "done" /\ ~handle[c]) => ~P_alive(c))
    /\ [][\A d \in Calls :
            (cpc[d] = "count" /\ cpc'[d] = "returned"
                /\ \A c \in Calls \ {d} :
                      kind[c] = kind[d] =>
                          /\ cpc[c] \in {"count", "returned"}
                          /\ ~Running(c) /\ ~handle[c])
            => res'[d] # "Busy"]_vars

\* a pass over more rows than permits has returned, its Progress has been
\* dropped, and a later archive() of another caller has been given a pass
C17_Witness ==
    \E c, d \in Calls :
        /\ c # d /\ kind[c] = "archive" /\ kind[d] = "archive"
        /\ tpc[c] = "done" /\ ~handle[c] /\ Len(rows[c]) > NumCpus
        /\ res[d] = "Ok" /\ Running(d)

\* call c holds a guard handed out by a spawned pass: its task runs, a worker
\* of it runs, or the caller holds the Progress
InProgress(c) ==
    \/ Running(c)
    \/ \E id \in Ids : wpc[c][id] \in {"run", "flush"}
    \/ handle[c]

\* C19: the step in which archive() returns Busy is taken right after the
\* count and changes nothing of the archive (directory, dump file, copies);
\* while an archive pass is in progress no other archive() call is at the
\* directory creation, the dump or remove_extraneous, and no copy under the
\* archive root is deleted.
C19_BusyArchiveTouchesNothing ==
    [][/\ \A c \in Calls :
              (kind[c] = "archive" /\ res[c] # "Busy" /\ res'[c] = "Busy") =>
                  /\ cpc[c] = "count"
                  /\ UNCHANGED archVars
       /\ \A c \in Calls :
              (kind[c] = "archive" /\ InProgress(c)) =>
                  /\ \A d \in Calls \ {c} :
                        kind[d] = "archive" =>
                            /\ cpc[d] \notin {"mkdir", "dump", "extraneous"}
                            /\ cpc'[d] \notin {"mkdir", "dump", "extraneous"}
                  /\ archived \subseteq archived'
      ]_vars

\* an archive() call has failed with Busy while another archive pass, one
\* copy made, is still streaming
C19_Witness ==
    \E c, d \in Calls :
        /\ c # d /\ kind[c] = "archive" /\ kind[d] = "archive"
        /\ Running(c) /\ archived # {}
        /\ res[d] = "Busy"

\* C20: the step in which archive() fails at the directory creation, the dump
\* or remove_extraneous returns Internal, spawns no task and no worker and
\* leaves no guard of the call alive, so that the archive slot is vacant for
\* every other caller; an archive() call is made Busy only by a call that
\* holds a live guard, never by one that has failed.
C20_FailedArchiveVacatesSlot ==
    [][/\ \A c \in Calls :
              (cpc[c] \in {"mkdir", "dump", "extraneous"} /\ res'[c] # "none") =>
                  \/ res'[c] = "Ok" /\ cpc[c] = "extraneous"
                  \/ /\ res'[c] = "Internal" /\ cpc'[c] = "returned"
                     /\ tpc'[c] = "none"
                     /\ \A id \in Ids : wpc'[c][id] = "none"
                     /\ ~P_alive(c)'
                     /\ \A d \in Calls \ {c} : ~P_busy(ArchiveSlot, d)'
       /\ \A d \in Calls :
              (kind[d] = "archive" /\ res[d] # "Busy" /\ res'[d] = "Busy") =>
                  \E c \in Calls \ {d} :
                      /\ kind[c] = "archive" /\ P_alive(c)
                      /\ res[c] \in {"none", "Ok"}
      ]_vars

\* an archive() call that had its count and its guard has failed with
\* Internal, and a following archive() of another caller runs its pass
C20_Witness ==
    \E c, d \in Calls :
        /\ c # d /\ kind[c] = "archive" /\ kind[d] = "archive"
        /\ res[c] = "Internal" /\ total[c] >= 1
        /\ res[d] = "Ok" /\ Running(d)

====
